---- MODULE Spec2Model ----
(***************************************************************************)
(* The list store of AniToWatch: class DataManager of main.js, one JSON    *)
(* array file per list kind, with get / add / remove / update / saveData.  *)
(*                                                                         *)
(* A DataManager object has two fields, filePath and type; they are fixed  *)
(* by the constructor and always name the same list kind, so the model     *)
(* keeps them as one variable, type.  The backing files are the variable   *)
(* files, one content per list kind.                                       *)
(*                                                                         *)
(* JavaScript values.  An object is a function from its own keys to their  *)
(* values; `undefined' is the string Undefined, which only the string      *)
(* valued key image can hold (every other projected field is either        *)
(* guaranteed by the catalog or defaulted with `|| 0').  An array is a     *)
(* sequence.  A file content is a record [t, items]: t tells what the text *)
(* is (no file, blank text, text JSON.parse rejects, the JSON text null,   *)
(* the JSON text of some other non-array value, the JSON text of an array) *)
(* and items is the array the text denotes when t = "array".               *)
(***************************************************************************)
EXTENDS Integers, Sequences, FiniteSets, TLC

\* Bounds of the model.
MaxMalId == 2      \* catalog ids are 1..MaxMalId
MaxLen   == 2      \* add is not called on a list that already holds MaxLen entries
MaxClock == 1      \* Date.now() takes the values 0..MaxClock
MaxCalls == 3      \* calls made in one run of the asynchronous steps
MaxPage  == 3      \* the search provider has MaxPage full pages of every category

VARIABLES
    type,     \* this.type / this.filePath of the DataManager
    files,    \* files[k]: content of the backing file of list kind k
    now,      \* the wall clock read by Date.now() and new Date()
    last,     \* the last call made on the DataManager and its outcome
    dir,      \* the data directory exists (fs.existsSync(dir))
    disk,     \* fs.mkdirSync and fs.writeFileSync succeed (they throw otherwise)
    localStorage,  \* window.localStorage of the page that has no electronAPI
    renderer, \* renderer[api]: the manager fields of the page whose
              \* window.electronAPI is present (api = TRUE) or absent
    inbox,    \* calls issued and not yet begun (IPC messages not yet dispatched)
    pending,  \* calls begun and suspended at an await, in the order they resume
    returned, \* the calls that have completed, in the order they completed
    search    \* the fields of SearchManager, its results container and its
              \* executeSearch calls in flight

vars == <<type, files, now, last, dir, disk, localStorage, renderer,
          inbox, pending, returned, search>>

\* The file system state besides the files, and the state of the pages.
env == <<dir, disk>>
pages == <<localStorage, renderer>>

\* The calls in flight and the search page.
async == <<inbox, pending, returned, search>>

Kinds == {"watchlist", "readinglist", "favorites"}
MalIds == 1..MaxMalId
Undefined == "undefined"

-----------------------------------------------------------------------------
(* File contents and JSON *)

Missing    == [t |-> "missing",    items |-> <<>>]
Blank      == [t |-> "blank",      items |-> <<>>]
Unparsable == [t |-> "unparsable", items |-> <<>>]
JsonNull   == [t |-> "null",       items |-> <<>>]
JsonObject == [t |-> "object",     items |-> <<>>]
Unreadable == [t |-> "unreadable", items |-> <<>>]   \* fs.readFileSync throws

\* Keys whose value is a string (or undefined); the others hold numbers.
StringKeys == {"id", "title", "name", "image", "anime", "status", "notes", "added_date"}

\* obj.key as JavaScript reads it: undefined when obj has no such key.
Prop(obj, key) == IF key \in DOMAIN obj THEN obj[key] ELSE Undefined

\* JSON.stringify of one object: a key whose value is undefined is left out.
StringifyObject(obj) ==
    LET kept == {k \in DOMAIN obj : ~(k \in StringKeys /\ obj[k] = Undefined)}
    IN  [k \in kept |-> obj[k]]

\* Mutant of JSONstringify: the last element is not written.
JSONstringifyTruncated(data) ==
    [t |-> "array",
     items |-> [i \in 1..(IF Len(data) > 1 THEN Len(data) - 1 ELSE Len(data)) |->
                  StringifyObject(data[i])]]

\* JSON.stringify(data, null, 2) of an array of objects: the text of an array.
JSONstringify(data) ==
    [t |-> "array", items |-> [i \in 1..Len(data) |-> StringifyObject(data[i])]]

\* JSON.parse of the text of an array: the array it denotes.
JSONparse(text) == text.items

\* Values a call settles with: an array, a non-array value, or a rejection.
List(items) == [t |-> "list", items |-> items]
NonList     == [t |-> "object", items |-> <<>>]
Threw       == [t |-> "threw", items |-> <<>>]

\* Outcome of a call: what it settles with, the file content it leaves, and
\* how many times it wrote the file.
Outcome(ret, file, writes) == [ret |-> ret, file |-> file, writes |-> writes]

-----------------------------------------------------------------------------
(* DataManager *)

\* saveData: the content of the file after a successful write.
saveData(data) == JSONstringify(data)

\* ensureDataDirectory: create an empty JSON file if there is none.
ensureDataDirectory(file) == IF file.t = "missing" THEN saveData(<<>>) ELSE file

\* getWatchlist (also getReadingList, getFavorites).
getWatchlist(file) ==
    IF file.t = "missing" THEN Outcome(List(<<>>), file, 0)
    ELSE IF file.t = "blank" THEN Outcome(List(<<>>), file, 0)
    ELSE IF file.t = "array" THEN Outcome(List(JSONparse(file)), file, 0)
    ELSE IF file.t = "object" THEN Outcome(NonList, file, 0)
    ELSE \* JSON.parse throws, or null.length throws: reset the file
         Outcome(List(<<>>), saveData(<<>>), 1)

getReadingList(file) == getWatchlist(file)

getFavorites(file) == getWatchlist(file)

\* x || 0 for a numeric field x of a catalog record.
OrZero(rec, key) == IF key \in DOMAIN rec /\ rec[key] # 0 THEN rec[key] ELSE 0

\* rec.images?.jpg?.image_url
ImageUrl(rec) ==
    IF "images" \in DOMAIN rec /\ "jpg" \in DOMAIN rec.images
    THEN Prop(rec.images.jpg, "image_url")
    ELSE Undefined

\* Date.now().toString() and new Date().toISOString() at clock value t.
DateNowString(t) == ToString(t)
ISOString(t) == "date:" \o ToString(t)

\* Mutant of animeItem: status is copied from the record, without a default.
animeItemNoDefault(anime, t) ==
    [id               |-> DateNowString(t),
     mal_id           |-> anime.mal_id,
     title            |-> anime.title,
     image            |-> ImageUrl(anime),
     episodes         |-> OrZero(anime, "episodes"),
     score            |-> OrZero(anime, "score"),
     episodes_watched |-> 0,
     status           |-> Prop(anime, "status"),
     rating           |-> 0,
     notes            |-> "",
     added_date       |-> ISOString(t)]

animeItem(anime, t) ==
    [id               |-> DateNowString(t),
     mal_id           |-> anime.mal_id,
     title            |-> anime.title,
     image            |-> ImageUrl(anime),
     episodes         |-> OrZero(anime, "episodes"),
     score            |-> OrZero(anime, "score"),
     episodes_watched |-> 0,
     status           |-> "planning",
     rating           |-> 0,
     notes            |-> "",
     added_date       |-> ISOString(t)]

mangaItem(manga, t) ==
    [id            |-> DateNowString(t),
     mal_id        |-> manga.mal_id,
     title         |-> manga.title,
     image         |-> ImageUrl(manga),
     chapters      |-> OrZero(manga, "chapters"),
     score         |-> OrZero(manga, "score"),
     chapters_read |-> 0,
     status        |-> "planning",
     rating        |-> 0,
     notes         |-> "",
     added_date    |-> ISOString(t)]

\* character.anime?.[0]?.anime?.title || 'Unknown'
AnimeTitle(character) ==
    IF "anime" \in DOMAIN character /\ Len(character.anime) > 0
       /\ "anime" \in DOMAIN character.anime[1]
       /\ "title" \in DOMAIN character.anime[1].anime
       /\ character.anime[1].anime.title # ""
    THEN character.anime[1].anime.title
    ELSE "Unknown"

characterItem(character, t) ==
    [id         |-> DateNowString(t),
     mal_id     |-> character.mal_id,
     name       |-> character.name,
     image      |-> ImageUrl(character),
     anime      |-> AnimeTitle(character),
     favorites  |-> OrZero(character, "favorites"),
     added_date |-> ISOString(t)]

\* list.find(a => a.mal_id === id) is not undefined
Find(list, id) == \E i \in 1..Len(list) : list[i].mal_id = id

\* list.findIndex(a => a.mal_id === id), 1-based; 0 stands for -1
FindIndex(list, id) ==
    IF Find(list, id)
    THEN CHOOSE i \in 1..Len(list) :
            /\ list[i].mal_id = id
            /\ \A j \in 1..(i - 1) : list[j].mal_id # id
    ELSE 0

\* Mutant of Filter: the test is inverted, list.filter(a => a.mal_id === id).
FilterInverted(list, id) == SelectSeq(list, LAMBDA a : a.mal_id = id)

\* list.filter(a => a.mal_id !== id)
RECURSIVE Filter(_, _)
Filter(list, id) ==
    IF list = <<>> THEN <<>>
    ELSE IF Head(list).mal_id # id
         THEN <<Head(list)>> \o Filter(Tail(list), id)
         ELSE Filter(Tail(list), id)

\* Mutant of Merge: the spreads are swapped, { ...updates, ...item }.
MergeSwapped(item, updates) ==
    [k \in DOMAIN item \cup DOMAIN updates |->
        IF k \in DOMAIN item THEN item[k] ELSE updates[k]]

\* { ...item, ...updates }
Merge(item, updates) ==
    [k \in DOMAIN item \cup DOMAIN updates |->
        IF k \in DOMAIN updates THEN updates[k] ELSE item[k]]

\* Mutant of PushIfAbsent: an entry with the id is replaced by the new item.
PushOrReplace(g, malId, item) ==
    IF g.ret.t # "list" THEN Outcome(Threw, g.file, g.writes)
    ELSE LET list == IF Find(g.ret.items, malId)
                     THEN [g.ret.items EXCEPT ![FindIndex(g.ret.items, malId)] = item]
                     ELSE Append(g.ret.items, item)
         IN  Outcome(List(list), saveData(list), g.writes + 1)

\* Mutant of PushIfAbsent: the new item is put first, list.unshift(item).
PushFirstIfAbsent(g, malId, item) ==
    IF g.ret.t # "list" THEN Outcome(Threw, g.file, g.writes)
    ELSE IF ~Find(g.ret.items, malId)
         THEN LET list == <<item>> \o g.ret.items
              IN  Outcome(List(list), saveData(list), g.writes + 1)
         ELSE Outcome(List(g.ret.items), g.file, g.writes)

\* "Prevent duplicates": push and save when the id is absent, then return the list.
PushIfAbsent(g, malId, item) ==
    IF g.ret.t # "list" THEN Outcome(Threw, g.file, g.writes)
    ELSE IF ~Find(g.ret.items, malId)
         THEN LET list == Append(g.ret.items, item)
              IN  Outcome(List(list), saveData(list), g.writes + 1)
         ELSE Outcome(List(g.ret.items), g.file, g.writes)

addToWatchlist(file, anime, t) ==
    PushIfAbsent(getWatchlist(file), anime.mal_id, animeItem(anime, t))

addToReadingList(file, manga, t) ==
    PushIfAbsent(getReadingList(file), manga.mal_id, mangaItem(manga, t))

addToFavorites(file, character, t) ==
    PushIfAbsent(getFavorites(file), character.mal_id, characterItem(character, t))

\* Mutant of removeFromWatchlist: an id that is not found is an error.
removeFromWatchlistStrict(file, id) ==
    LET g == getWatchlist(file) IN
    IF g.ret.t # "list" \/ ~Find(g.ret.items, id) THEN Outcome(Threw, g.file, g.writes)
    ELSE LET watchlist == Filter(g.ret.items, id)
         IN  Outcome(List(watchlist), saveData(watchlist), g.writes + 1)

removeFromWatchlist(file, id) ==
    LET g == getWatchlist(file) IN
    IF g.ret.t # "list" THEN Outcome(Threw, g.file, g.writes)
    ELSE LET watchlist == Filter(g.ret.items, id)
         IN  Outcome(List(watchlist), saveData(watchlist), g.writes + 1)

removeFromReadingList(file, id) == removeFromWatchlist(file, id)

removeFromFavorites(file, id) == removeFromWatchlist(file, id)

\* Mutant of updateWatchlist: saveData is called whether the id was found or not.
updateWatchlistAlwaysSaves(file, id, updates) ==
    LET g == getWatchlist(file) IN
    IF g.ret.t # "list" THEN Outcome(Threw, g.file, g.writes)
    ELSE LET index == FindIndex(g.ret.items, id)
             watchlist ==
                 IF index # 0
                 THEN [g.ret.items EXCEPT ![index] = Merge(g.ret.items[index], updates)]
                 ELSE g.ret.items
         IN  Outcome(List(watchlist), saveData(watchlist), g.writes + 1)

updateWatchlist(file, id, updates) ==
    LET g == getWatchlist(file) IN
    IF g.ret.t # "list" THEN Outcome(Threw, g.file, g.writes)
    ELSE LET index == FindIndex(g.ret.items, id) IN
         IF index # 0
         THEN LET watchlist ==
                    [g.ret.items EXCEPT ![index] = Merge(g.ret.items[index], updates)]
              IN  Outcome(List(watchlist), saveData(watchlist), g.writes + 1)
         ELSE Outcome(List(g.ret.items), g.file, g.writes)

-----------------------------------------------------------------------------
(* Inputs *)

\* Catalog records: the provider guarantees mal_id and title / name only.
\* A bare record carries nothing else; a complete record carries every field
\* the projection reads.
MinimalAnime(m) == [mal_id |-> m, title |-> "T"]
FullAnime(m) ==
    [mal_id |-> m, title |-> "T", episodes |-> 12, score |-> 8,
     images |-> [jpg |-> [image_url |-> "url"]]]

MinimalManga(m) == [mal_id |-> m, title |-> "T"]
FullManga(m) ==
    [mal_id |-> m, title |-> "T", chapters |-> 12, score |-> 8,
     images |-> [jpg |-> [image_url |-> "url"]]]

MinimalCharacter(m) == [mal_id |-> m, name |-> "N"]
FullCharacter(m) ==
    [mal_id |-> m, name |-> "N", favorites |-> 5,
     images |-> [jpg |-> [image_url |-> "url"]],
     anime |-> <<[anime |-> [title |-> "A"]]>>]

AllAnimes == {MinimalAnime(m) : m \in MalIds} \cup {FullAnime(m) : m \in MalIds}
Mangas == {MinimalManga(m) : m \in MalIds} \cup {FullManga(m) : m \in MalIds}
Characters == {MinimalCharacter(m) : m \in MalIds} \cup {FullCharacter(m) : m \in MalIds}

\* Records passed to add-to-watchlist.  The watchlist is the one list that is
\* also updated, so its add takes the bare records only; complete anime records
\* are projected and persisted in SpecRT.
Animes == {MinimalAnime(m) : m \in MalIds}

\* Partial field sets passed to update: no field, the four fields the edit
\* dialog sends, and the identity field itself.  update checks no value.
NoFields   == <<>>
EditFields == [status |-> "watching", episodes_watched |-> 1, rating |-> 11, notes |-> "n"]
Updates == {NoFields, EditFields} \cup {[mal_id |-> m] : m \in MalIds}

\* The entry add would build now from each catalog record, per list kind.
ItemsNow(k, t) ==
    IF k = "watchlist" THEN {animeItem(a, t) : a \in AllAnimes}
    ELSE IF k = "readinglist" THEN {mangaItem(a, t) : a \in Mangas}
    ELSE {characterItem(a, t) : a \in Characters}

\* Arrays of at most MaxLen such entries, in any order, repeats included.
RECURSIVE ListsOver(_, _)
ListsOver(S, n) ==
    IF n = 0 THEN {<<>>}
    ELSE LET shorter == ListsOver(S, n - 1)
         IN  shorter \cup {Append(l, e) : l \in shorter, e \in S}

\* Contents a backing file can be found with when the application starts.
StartContents == {Missing, Blank, Unparsable, JsonNull, JsonObject}

-----------------------------------------------------------------------------
(* State machine of one DataManager *)

\* The array get returns for a file content (empty when it returns no array).
Stored(file) == getWatchlist(file).ret.items

\* The record kept of a call: the operation, its id argument (0 when it has
\* none), its record / field-set / array argument, whether the array it read
\* held an entry with that id, what it settled with and how often it wrote.
NoCall ==
    [op |-> "none", id |-> 0, data |-> <<>>, hit |-> FALSE,
     ret |-> List(<<>>), writes |-> 0]

Hit(file, id) == Find(Stored(file), id)

Call(op, id, data, hit, o) ==
    [op |-> op, id |-> id, data |-> data, hit |-> hit,
     ret |-> o.ret, writes |-> o.writes]

\* add is modelled on lists of fewer than MaxLen entries, or for a present id.
Room(file, id) ==
    LET g == getWatchlist(file) IN
    g.ret.t = "list" => (Len(g.ret.items) < MaxLen \/ Find(g.ret.items, id))

Settle(k, call, o) ==
    /\ files' = [files EXCEPT ![k] = o.file]
    /\ last' = call
    /\ UNCHANGED <<type, now, env, pages, async>>

Get(k) ==
    LET o == getWatchlist(files[k]) IN
    Settle(k, Call("get", 0, <<>>, FALSE, o), o)

AddToWatchlist(k) ==
    \E anime \in Animes :
        /\ Room(files[k], anime.mal_id)
        /\ LET o == addToWatchlist(files[k], anime, now) IN
           Settle(k, Call("add", anime.mal_id, anime, Hit(files[k], anime.mal_id), o), o)

AddToReadingList(k) ==
    \E manga \in Mangas :
        /\ Room(files[k], manga.mal_id)
        /\ LET o == addToReadingList(files[k], manga, now) IN
           Settle(k, Call("add", manga.mal_id, manga, Hit(files[k], manga.mal_id), o), o)

AddToFavorites(k) ==
    \E character \in Characters :
        /\ Room(files[k], character.mal_id)
        /\ LET o == addToFavorites(files[k], character, now) IN
           Settle(k, Call("add", character.mal_id, character,
                         Hit(files[k], character.mal_id), o), o)

RemoveFromList(k) ==
    \E id \in MalIds :
        LET o == removeFromWatchlist(files[k], id) IN
        Settle(k, Call("remove", id, <<>>, Hit(files[k], id), o), o)

UpdateWatchlist(k) ==
    \E id \in MalIds, updates \in Updates :
        LET o == updateWatchlist(files[k], id, updates) IN
        Settle(k, Call("update", id, updates, Hit(files[k], id), o), o)

Tick ==
    /\ now < MaxClock
    /\ now' = now + 1
    /\ UNCHANGED <<type, files, last, env, pages, async>>

SaveData(k) ==
    \E data \in ListsOver(ItemsNow(k, now), MaxLen) :
        LET o == Outcome(List(data), saveData(data), 1) IN
        Settle(k, Call("save", 0, data, FALSE, o), o)

\* The data directory exists and the disk takes writes.
Healthy == dir = TRUE /\ disk = TRUE

\* No page is open: the local store is empty and no manager holds anything.
StorageKeys ==
    {"anitowatch-watchlist", "anitowatch-readinglist",
     "anitowatch-favorites", "anitowatch-favorite-characters"}

NoItem == [t |-> "null", items |-> <<>>]

FreshManagers ==
    [watchlist |-> <<>>, readingList |-> <<>>, favorites |-> <<>>,
     favoriteCharacters |-> <<>>]

Closed ==
    /\ localStorage = [key \in StorageKeys |-> NoItem]
    /\ renderer = [api \in BOOLEAN |-> FreshManagers]

\* No call is in flight and the search page shows nothing.
NoSearch ==
    [currentPage |-> 1, container |-> <<>>, calls |-> <<>>, loadMore |-> FALSE, made |-> 0]

Idle ==
    /\ inbox = <<>>
    /\ pending = <<>>
    /\ returned = <<>>
    /\ search = NoSearch

Init ==
    /\ type \in Kinds
    /\ files = [k \in Kinds |-> ensureDataDirectory(Missing)]
    /\ now = 0
    /\ last = NoCall
    /\ Healthy
    /\ Closed
    /\ Idle

Next ==
    \/ Get(type)
    \/ type = "watchlist" /\ AddToWatchlist(type)
    \/ type = "readinglist" /\ AddToReadingList(type)
    \/ type = "favorites" /\ AddToFavorites(type)
    \/ RemoveFromList(type)
    \/ type = "watchlist" /\ UpdateWatchlist(type)
    \/ Tick

\* One DataManager, constructed on a missing file, under get / add / remove /
\* update calls.
Spec == Init /\ [][Next]_vars

\* One DataManager whose saveData is called with any array, and get.
NextRT ==
    \/ SaveData(type)
    \/ Get(type)
    \/ Tick

SpecRT == Init /\ [][NextRT]_vars

\* One DataManager constructed on a file of any content.
InitRepair ==
    /\ type \in Kinds
    /\ \E c \in StartContents :
          files = [k \in Kinds |->
                     IF k = type THEN ensureDataDirectory(c)
                     ELSE ensureDataDirectory(Missing)]
    /\ now = 0
    /\ last = NoCall
    /\ Healthy
    /\ Closed
    /\ Idle

SpecRepair == InitRepair /\ [][Next]_vars

-----------------------------------------------------------------------------
(* The bridge: electronAPI of preload.js and the handlers of setupIPC *)

\* Mutant of NewDataManager: the constructor creates no file.
NewDataManagerLazy(file, d, ok) ==
    IF ~d /\ ~ok THEN [threw |-> TRUE, file |-> file, dir |-> d]
    ELSE [threw |-> FALSE, file |-> file, dir |-> TRUE]

\* new DataManager(filePath, type) when the directory exists or not (d) and
\* the disk takes writes or not (ok).  The constructor runs
\* ensureDataDirectory: fs.mkdirSync throws out of it; this.saveData([]) is
\* not awaited, so a write that fails there is dropped.
NewDataManager(file, d, ok) ==
    IF ~d /\ ~ok THEN [threw |-> TRUE, file |-> file, dir |-> d]
    ELSE [threw |-> FALSE,
          file  |-> IF ok THEN ensureDataDirectory(file) ELSE file,
          dir   |-> TRUE]

\* Mutant of Written: a write that fails is dropped by the method too.
WrittenSwallowed(ok, file, o) ==
    IF ok THEN o ELSE Outcome(o.ret, file, o.writes)

\* The outcome o of a method called on the content file, on a disk that
\* takes writes or not.  fs.writeFileSync throws and saveData rethrows: the
\* file keeps its content; the reset of getWatchlist is not awaited, its
\* failure is dropped; `await this.saveData(...)' rejects the method.
Written(ok, file, o) ==
    IF ok THEN o
    ELSE Outcome(IF o.writes > getWatchlist(file).writes THEN Threw ELSE o.ret,
                 file, o.writes)

Methods ==
    {"getWatchlist", "addToWatchlist", "removeFromWatchlist", "updateWatchlist",
     "getReadingList", "addToReadingList", "removeFromReadingList",
     "getFavorites", "addToFavorites", "removeFromFavorites"}

\* preload.js: the channel an electronAPI method invokes.
ChannelOf(method) ==
    CASE method = "getWatchlist"          -> "get-watchlist"
      [] method = "addToWatchlist"        -> "add-to-watchlist"
      [] method = "removeFromWatchlist"   -> "remove-from-watchlist"
      [] method = "updateWatchlist"       -> "update-watchlist"
      [] method = "getReadingList"        -> "get-readinglist"
      [] method = "addToReadingList"      -> "add-to-readinglist"
      [] method = "removeFromReadingList" -> "remove-from-readinglist"
      [] method = "getFavorites"          -> "get-favorites"
      [] method = "addToFavorites"        -> "add-to-favorites"
      [] method = "removeFromFavorites"   -> "remove-from-favorites"

\* Mutant of ManagerOf: the reading list handlers read this.watchlistManager.
ManagerOfShared(channel) ==
    IF channel \in {"get-favorites", "add-to-favorites", "remove-from-favorites"}
    THEN "favorites"
    ELSE "watchlist"

\* Mutant of ManagerOf: the update-watchlist handler reads
\* this.favoritesManager.
ManagerOfUpdateFavorites(channel) ==
    CASE channel \in {"get-watchlist", "add-to-watchlist",
                      "remove-from-watchlist"} -> "watchlist"
      [] channel \in {"get-readinglist", "add-to-readinglist",
                      "remove-from-readinglist"} -> "readinglist"
      [] channel \in {"get-favorites", "add-to-favorites",
                      "remove-from-favorites", "update-watchlist"} -> "favorites"

\* setupIPC: the getter the handler of a channel reads, by the kind of the
\* DataManager the getter constructs.
ManagerOf(channel) ==
    CASE channel \in {"get-watchlist", "add-to-watchlist",
                      "remove-from-watchlist", "update-watchlist"} -> "watchlist"
      [] channel \in {"get-readinglist", "add-to-readinglist",
                      "remove-from-readinglist"} -> "readinglist"
      [] channel \in {"get-favorites", "add-to-favorites",
                      "remove-from-favorites"} -> "favorites"

\* Mutant of Handle: the handler of remove-from-favorites calls getFavorites.
HandleNoRemove(channel, file, id, data, t) ==
    CASE channel = "get-watchlist"           -> getWatchlist(file)
      [] channel = "add-to-watchlist"        -> addToWatchlist(file, data, t)
      [] channel = "remove-from-watchlist"   -> removeFromWatchlist(file, id)
      [] channel = "update-watchlist"        -> updateWatchlist(file, id, data)
      [] channel = "get-readinglist"         -> getReadingList(file)
      [] channel = "add-to-readinglist"      -> addToReadingList(file, data, t)
      [] channel = "remove-from-readinglist" -> removeFromReadingList(file, id)
      [] channel = "get-favorites"           -> getFavorites(file)
      [] channel = "add-to-favorites"        -> addToFavorites(file, data, t)
      [] channel = "remove-from-favorites"   -> getFavorites(file)

\* setupIPC: the method the handler of a channel calls on the DataManager
\* and returns the result of.
Handle(channel, file, id, data, t) ==
    CASE channel = "get-watchlist"           -> getWatchlist(file)
      [] channel = "add-to-watchlist"        -> addToWatchlist(file, data, t)
      [] channel = "remove-from-watchlist"   -> removeFromWatchlist(file, id)
      [] channel = "update-watchlist"        -> updateWatchlist(file, id, data)
      [] channel = "get-readinglist"         -> getReadingList(file)
      [] channel = "add-to-readinglist"      -> addToReadingList(file, data, t)
      [] channel = "remove-from-readinglist" -> removeFromReadingList(file, id)
      [] channel = "get-favorites"           -> getFavorites(file)
      [] channel = "add-to-favorites"        -> addToFavorites(file, data, t)
      [] channel = "remove-from-favorites"   -> removeFromFavorites(file, id)

\* The arguments the pages pass: a catalog record to an add method, an id to
\* a remove method, an id and the field set of an edit to updateWatchlist.
Getters  == {"getWatchlist", "getReadingList", "getFavorites"}
Adders   == {"addToWatchlist", "addToReadingList", "addToFavorites"}
Removers == {"removeFromWatchlist", "removeFromReadingList", "removeFromFavorites"}

Catalog(method) ==
    CASE method = "addToWatchlist"   -> Animes
      [] method = "addToReadingList" -> {MinimalManga(m) : m \in MalIds}
      [] method = "addToFavorites"   -> {MinimalCharacter(m) : m \in MalIds}

Arguments(method) ==
    CASE method \in Getters  -> {[id |-> 0, data |-> <<>>]}
      [] method \in Adders   -> {[id |-> r.mal_id, data |-> r] : r \in Catalog(method)}
      [] method \in Removers -> {[id |-> m, data |-> <<>>] : m \in MalIds}
      [] OTHER               -> {[id |-> m, data |-> u] : m \in MalIds,
                                                          u \in {NoFields, EditFields}}

\* The record kept of a bridge call: as Call, with the method for op and the
\* kind of content the call found in the file.
Invoked(method, id, data, file, o) ==
    [op |-> method, id |-> id, data |-> data, hit |-> Hit(file, id),
     ret |-> o.ret, writes |-> o.writes, before |-> file.t]

\* The three lists together hold at most MaxLen entries.
TotalLen ==
    Len(Stored(files["watchlist"])) + Len(Stored(files["readinglist"]))
        + Len(Stored(files["favorites"]))

\* What the handler of the channel of a method settles with: the getter
\* constructs a DataManager, the handler awaits its method.  Also whether the
\* data directory exists afterwards.
Served(method, id, data) ==
    LET channel == ChannelOf(method)
        k == ManagerOf(channel)
        m == NewDataManager(files[k], dir, disk)
    IN  [o   |-> IF m.threw THEN Outcome(Threw, files[k], 0)
                 ELSE Written(disk, m.file, Handle(channel, m.file, id, data, now)),
         dir |-> m.dir]

\* ipcRenderer.invoke(channel, ...) from a page.
Invoke(method) ==
    \E a \in Arguments(method) :
        LET k == ManagerOf(ChannelOf(method))
            s == Served(method, a.id, a.data)
        IN  /\ method \in Adders => (TotalLen < MaxLen \/ Hit(files[k], a.id))
            /\ files' = [files EXCEPT ![k] = s.o.file]
            /\ dir' = s.dir
            /\ last' = Invoked(method, a.id, a.data, files[k], s.o)
            /\ UNCHANGED <<type, now, disk, pages, async>>

\* The environment: a file is deleted or damaged, the data directory is
\* deleted with its files, the disk stops or resumes taking writes.
Damages == {Missing, Blank, Unparsable, JsonNull, JsonObject, Unreadable}

Damage(k) ==
    /\ dir
    /\ files[k].t = "array"
    /\ \E c \in Damages : files' = [files EXCEPT ![k] = c]
    /\ UNCHANGED <<type, now, last, env, pages, async>>

RemoveDir ==
    /\ dir
    /\ dir' = FALSE
    /\ files' = [k \in Kinds |-> Missing]
    /\ UNCHANGED <<type, now, last, disk, pages, async>>

DiskFlips ==
    /\ disk' = ~disk
    /\ UNCHANGED <<type, files, now, last, dir, pages, async>>

\* The main process at start: no data directory yet.
InitBridge ==
    /\ type \in Kinds
    /\ files = [k \in Kinds |-> Missing]
    /\ now = 0
    /\ last = NoCall
    /\ dir = FALSE
    /\ disk = TRUE
    /\ Closed
    /\ Idle

NextBridge == \E method \in Methods : Invoke(method)

\* The ten bridge operations on the three files, in any order.
SpecBridge == InitBridge /\ [][NextBridge]_vars

\* The bridge operations of one list kind, on files that get damaged and a
\* disk that can fail.
NextFaults ==
    \/ \E method \in Methods :
          ManagerOf(ChannelOf(method)) = type /\ Invoke(method)
    \/ Damage(type)
    \/ RemoveDir
    \/ DiskFlips

SpecFaults == InitBridge /\ [][NextFaults]_vars

-----------------------------------------------------------------------------
(* Properties *)

\* The array a get on the list of this DataManager returns.
Current == Stored(files[type])

\* The step is a call of operation op (a call record is written).
IsCall(op) == last' # last /\ last'.op = op

\* The first position of an entry with the id.
FirstWith(list, id) ==
    CHOOSE i \in 1..Len(list) :
        list[i].mal_id = id /\ \A j \in 1..Len(list) : list[j].mal_id = id => i <= j

\* A catalog record that carries mal_id and title / name only.
IsMinimal(rec) == DOMAIN rec \subseteq {"mal_id", "title", "name"}

\* C1: in every state reached by add, remove and update calls from the empty
\* list, no two persisted entries of the list have the same mal_id, whatever
\* field set update is given (one naming mal_id included).
C1_NoDuplicateMalId ==
    \A i, j \in 1..Len(Current) : i # j => Current[i].mal_id # Current[j].mal_id

\* C2: after add has been called with a mal_id, once or repeatedly, get
\* returns a collection with exactly one entry with that mal_id.
C2_AddThenGetHasOne ==
    (last.op = "add" /\ last.ret.t = "list") =>
        Cardinality({i \in 1..Len(Current) : Current[i].mal_id = last.id}) = 1

\* C3: add with a mal_id that is present does not write the file, leaves the
\* file content (every field of every entry) as it was and returns the
\* existing collection.
C3_AddPresentIsNoOp ==
    [][(IsCall("add") /\ Find(Current, last'.id)) =>
          /\ last'.writes = 0
          /\ files' = files
          /\ last'.ret = List(Current)]_vars

\* An add of a present id, made after the clock moved, on an entry that an
\* update had edited: the entry still has the edited status and its own date.
C3_Witness ==
    /\ type = "watchlist"
    /\ last.op = "add" /\ last.hit /\ last.writes = 0
    /\ \E i \in 1..Len(Current) :
          /\ Current[i].mal_id = last.id
          /\ Current[i].status = "watching"
          /\ Current[i].added_date # ISOString(now)

\* C4: remove(id) of a present id, then get: no entry has mal_id id, and the
\* entries with another mal_id are all there, unchanged, in the same order.
C4_RemoveThenGet ==
    [][(IsCall("remove") /\ Find(Current, last'.id)) =>
          /\ last'.ret.t = "list"
          /\ ~Find(Current', last'.id)
          /\ Current' = SelectSeq(Current, LAMBDA e : e.mal_id # last'.id)
          /\ last'.ret.items = Current']_vars

\* Two entries, one removed, exactly the other left.
C4_Witness ==
    /\ last.op = "remove" /\ last.hit
    /\ Len(Current) = 1 /\ Current[1].mal_id # last.id
    /\ last.ret = List(Current)

\* C5: remove(id) of an id that is not in the list leaves the collection as
\* it was and returns it; the call does not fail.
C5_RemoveAbsentIsNoOp ==
    [][(IsCall("remove") /\ ~Find(Current, last'.id)) =>
          /\ last'.ret = List(Current)
          /\ Current' = Current]_vars

\* A remove of an id that the non-empty list did not hold.
C5_Witness ==
    /\ last.op = "remove" /\ ~last.hit
    /\ last.ret.t = "list" /\ Len(Current) > 0

\* C6: update(id, fields) of a present id sets exactly the named fields of the
\* (first) entry with that mal_id to the given values, leaves its other fields
\* as they were, and leaves every other entry and the order as they were.
C6_UpdateSetsNamedFields ==
    [][(IsCall("update") /\ Find(Current, last'.id)) =>
          LET i == FirstWith(Current, last'.id)
              fields == last'.data
          IN  /\ last'.ret = List(Current')
              /\ Len(Current') = Len(Current)
              /\ DOMAIN Current'[i] = DOMAIN Current[i] \cup DOMAIN fields
              /\ \A k \in DOMAIN fields : Current'[i][k] = fields[k]
              /\ \A k \in DOMAIN Current[i] \ DOMAIN fields :
                    Current'[i][k] = Current[i][k]
              /\ \A j \in 1..Len(Current) : j # i => Current'[j] = Current[j]]_vars

\* The edit dialog's four fields written into the second of two entries.
C6_Witness ==
    /\ last.op = "update" /\ last.hit /\ last.data = EditFields
    /\ Len(Current) = 2
    /\ Current[2].mal_id = last.id /\ Current[1].mal_id # last.id
    /\ Current[2].status = "watching" /\ Current[1].status = "planning"

\* C7: update(id, fields) of an id that is not in the list does not write the
\* file and returns the collection as it was; the call does not fail.
C7_UpdateAbsentIsNoOp ==
    [][(IsCall("update") /\ ~Find(Current, last'.id)) =>
          /\ last'.writes = 0
          /\ files' = files
          /\ last'.ret = List(Current)]_vars

\* An update with the edit dialog's fields of an id that the non-empty list
\* did not hold.
C7_Witness ==
    /\ last.op = "update" /\ ~last.hit /\ last.data = EditFields
    /\ last.writes = 0 /\ Len(Current) > 0

\* No field of any entry of the array holds undefined.
NoUndefined(data) ==
    \A i \in 1..Len(data) : \A k \in DOMAIN data[i] \cap StringKeys :
        data[i][k] # Undefined

HasDefaults(e) ==
    /\ type \in {"watchlist", "readinglist"} =>
          /\ Prop(e, "status") = "planning"
          /\ Prop(e, "notes") = ""
          /\ "rating" \in DOMAIN e /\ e.rating = 0
          /\ "score" \in DOMAIN e /\ e.score = 0
    /\ type = "watchlist" =>
          /\ "episodes_watched" \in DOMAIN e /\ e.episodes_watched = 0
          /\ "episodes" \in DOMAIN e /\ e.episodes = 0
    /\ type = "readinglist" =>
          /\ "chapters_read" \in DOMAIN e /\ e.chapters_read = 0
          /\ "chapters" \in DOMAIN e /\ e.chapters = 0
    /\ type = "favorites" =>
          /\ "favorites" \in DOMAIN e /\ e.favorites = 0

\* C9: add of a record that carries mal_id and title / name only, for an id
\* that is absent, succeeds and appends one entry with the documented
\* defaults; on the empty list the resulting collection has length 1.
C9_AddMinimalDefaults ==
    [][(IsCall("add") /\ IsMinimal(last'.data) /\ ~Find(Current, last'.id)) =>
          LET n == Len(Current) + 1 IN
          /\ last'.ret.t = "list"
          /\ Len(last'.ret.items) = n
          /\ Len(Current') = n
          /\ last'.ret.items[n].mal_id = last'.id
          /\ Current'[n].mal_id = last'.id
          /\ HasDefaults(last'.ret.items[n])
          /\ HasDefaults(Current'[n])]_vars

\* A bare anime record added to the empty watchlist.
C9_Witness ==
    /\ last.op = "add" /\ ~last.hit /\ IsMinimal(last.data)
    /\ type = "watchlist"
    /\ Len(last.ret.items) = 1 /\ Len(Current) = 1
    /\ Current[1].status = "planning" /\ Current[1].episodes_watched = 0

\* C10: get on a backing content that is anything but the text of a JSON array
\* returns [] and resets the file to the empty array (so the next get returns
\* [] too).
C10_CorruptGetResets ==
    [][(IsCall("get") /\ files[type].t \in {"blank", "unparsable", "null", "object"}) =>
          /\ last'.ret = List(<<>>)
          /\ files'[type] = saveData(<<>>)
          /\ getWatchlist(files'[type]).ret = List(<<>>)]_vars

-----------------------------------------------------------------------------
(* The pages: WatchlistManager, SearchManager, FavoritesManager and         *)
(* CharacterManager, on a page with window.electronAPI and on one without. *)
(* Each action is one user request made on both pages.                     *)

\* saved ? JSON.parse(saved) : []  for  saved = localStorage.getItem(key)
ParseOrEmpty(saved) == IF saved.t = "null" THEN <<>> ELSE JSONparse(saved)

\* JSON.stringify of an array of ids.
StringifyIds(ids) == [t |-> "array", items |-> ids]

\* The elements of new Set(list), in insertion order.
RECURSIVE SetOf(_)
SetOf(list) ==
    IF list = <<>> THEN <<>>
    ELSE LET init == SetOf(SubSeq(list, 1, Len(list) - 1))
             x == list[Len(list)]
         IN  IF \E i \in 1..Len(init) : init[i] = x THEN init ELSE Append(init, x)

\* set.has(id), set.delete(id), set.add(id)
Has(set, id) == \E i \in 1..Len(set) : set[i] = id
Delete(set, id) == SelectSeq(set, LAMBDA x : x # id)
Add(set, id) == IF Has(set, id) THEN set ELSE Append(set, id)

\* favorites.map(fav => fav.mal_id)
MalIdsOf(list) == [i \in 1..Len(list) |-> list[i].mal_id]

\* The record kept of a request made on the pages.
Requested(op, id, hit) ==
    [op |-> op, id |-> id, data |-> <<>>, hit |-> hit, ret |-> List(<<>>), writes |-> 0]

\* The record kept of a request that made a bridge call: what the call
\* settled with and the notification the page shows ("" for none).
Notified(op, id, hit, ret, notification) ==
    [op |-> op, id |-> id, data |-> <<>>, hit |-> hit, ret |-> ret, writes |-> 0,
     notification |-> notification]

\* Mutant of AfterCall: the local update is made whether the call failed or not.
AfterCallAnyway(ret, before, after) == after

\* The local update that follows `await window.electronAPI...' in a try
\* block: it is skipped when the call rejects.
AfterCall(ret, before, after) == IF ret = Threw THEN before ELSE after

\* The main process serves a call of the page that has the bridge.
Serve(k, s) ==
    /\ files' = [files EXCEPT ![k] = s.o.file]
    /\ dir' = s.dir
    /\ UNCHANGED <<type, now, disk, async>>

\* WatchlistManager.loadWatchlist
LoadWatchlist ==
    LET s == Served("getWatchlist", 0, <<>>)
        saved == localStorage["anitowatch-watchlist"]
    IN  /\ Serve("watchlist", s)
        /\ renderer' =
             [renderer EXCEPT
                ![TRUE].watchlist  = IF s.o.ret.t = "list" THEN s.o.ret.items ELSE <<>>,
                ![FALSE].watchlist = ParseOrEmpty(saved)]
        /\ last' = Requested("loadWatchlist", 0, FALSE)
        /\ UNCHANGED localStorage

\* SearchManager.addToWatchlist: without the bridge only a notification.
SearchAddToWatchlist ==
    \E anime \in Animes :
        LET s == Served("addToWatchlist", anime.mal_id, anime) IN
        /\ TotalLen < MaxLen \/ Hit(files["watchlist"], anime.mal_id)
        /\ Serve("watchlist", s)
        /\ last' = Requested("addToWatchlist", anime.mal_id,
                             Hit(files["watchlist"], anime.mal_id))
        /\ UNCHANGED pages

\* WatchlistManager.removeAnime, confirmed by the user, then saveWatchlist.
RemoveAnime ==
    \E malId \in MalIds :
        LET s == Served("removeFromWatchlist", malId, <<>>)
            kept == [api \in BOOLEAN |-> Filter(renderer[api].watchlist, malId)]
        IN  /\ Serve("watchlist", s)
            /\ renderer' =
                 [renderer EXCEPT
                    ![TRUE].watchlist  = AfterCall(s.o.ret, @, kept[TRUE]),
                    ![FALSE].watchlist = kept[FALSE]]
            /\ localStorage' =
                 [localStorage EXCEPT !["anitowatch-watchlist"] = JSONstringify(kept[FALSE])]
            /\ last' = Notified("removeAnime", malId, Find(renderer[TRUE].watchlist, malId),
                                s.o.ret,
                                IF s.o.ret = Threw
                                THEN "Failed to remove anime. Please try again."
                                ELSE "")

\* Mutant of Edited: the local update leaves the notes as they were.
EditedWithoutNotes(watchlist, malId, fields) ==
    LET animeIndex == FindIndex(watchlist, malId) IN
    IF animeIndex = 0 THEN watchlist
    ELSE [watchlist EXCEPT
            ![animeIndex] = Merge(watchlist[animeIndex],
                                  [f \in DOMAIN fields \ {"notes"} |-> fields[f]])]

\* The local update of saveEdit: the entry found in this.watchlist takes the
\* four fields of the form.
Edited(watchlist, malId, fields) ==
    LET animeIndex == FindIndex(watchlist, malId) IN
    IF animeIndex = 0 THEN watchlist
    ELSE [watchlist EXCEPT ![animeIndex] = Merge(watchlist[animeIndex], fields)]

\* WatchlistManager.saveEdit, then saveWatchlist if the entry was found.
SaveEdit ==
    \E malId \in MalIds :
        LET s == Served("updateWatchlist", malId, EditFields)
            edited == [api \in BOOLEAN |-> Edited(renderer[api].watchlist, malId, EditFields)]
        IN  /\ Serve("watchlist", s)
            /\ renderer' =
                 [renderer EXCEPT
                    ![TRUE].watchlist  = AfterCall(s.o.ret, @, edited[TRUE]),
                    ![FALSE].watchlist = edited[FALSE]]
            /\ localStorage' =
                 IF Find(renderer[FALSE].watchlist, malId)
                 THEN [localStorage EXCEPT
                         !["anitowatch-watchlist"] = JSONstringify(edited[FALSE])]
                 ELSE localStorage
            /\ last' = Notified("saveEdit", malId, Find(renderer[TRUE].watchlist, malId),
                                s.o.ret,
                                IF s.o.ret = Threw
                                THEN "Failed to update anime. Please try again."
                                ELSE "")

\* CharacterManager.toggleFavorite, then saveFavoriteCharacters; the fetched
\* character is the catalog record of the id.
ToggleFavorite ==
    \E characterId \in MalIds :
        LET has == [api \in BOOLEAN |-> Has(renderer[api].favoriteCharacters, characterId)]
            toggled == [api \in BOOLEAN |->
                          IF has[api]
                          THEN Delete(renderer[api].favoriteCharacters, characterId)
                          ELSE Add(renderer[api].favoriteCharacters, characterId)]
            s == IF has[TRUE]
                 THEN Served("removeFromFavorites", characterId, <<>>)
                 ELSE Served("addToFavorites", characterId, MinimalCharacter(characterId))
        IN  /\ has[TRUE] \/ TotalLen < MaxLen \/ Hit(files["favorites"], characterId)
            /\ Serve("favorites", s)
            /\ renderer' =
                 [renderer EXCEPT
                    ![TRUE].favoriteCharacters  = toggled[TRUE],
                    ![FALSE].favoriteCharacters = toggled[FALSE]]
            /\ localStorage' =
                 [localStorage EXCEPT
                    !["anitowatch-favorite-characters"] = StringifyIds(toggled[FALSE])]
            /\ last' = Requested("toggleFavorite", characterId, has[FALSE])

\* CharacterManager.loadFavoriteCharacters
LoadFavoriteCharacters ==
    LET s == Served("getFavorites", 0, <<>>)
        saved == localStorage["anitowatch-favorite-characters"]
    IN  /\ Serve("favorites", s)
        /\ renderer' =
             [renderer EXCEPT
                ![TRUE].favoriteCharacters =
                    IF s.o.ret.t = "list" THEN SetOf(MalIdsOf(s.o.ret.items)) ELSE @,
                ![FALSE].favoriteCharacters =
                    IF saved.t = "null" THEN @ ELSE SetOf(JSONparse(saved))]
        /\ last' = Requested("loadFavoriteCharacters", 0, FALSE)
        /\ UNCHANGED localStorage

\* FavoritesManager.loadFavorites
LoadFavorites ==
    LET s == Served("getFavorites", 0, <<>>)
        saved == localStorage["anitowatch-favorites"]
    IN  /\ Serve("favorites", s)
        /\ renderer' =
             [renderer EXCEPT
                ![TRUE].favorites  = IF s.o.ret.t = "list" THEN s.o.ret.items ELSE <<>>,
                ![FALSE].favorites = ParseOrEmpty(saved)]
        /\ last' = Requested("loadFavorites", 0, FALSE)
        /\ UNCHANGED localStorage

\* FavoritesManager.removeFavorite, confirmed by the user.
RemoveFavorite ==
    \E characterId \in MalIds :
        LET s == Served("removeFromFavorites", characterId, <<>>)
            saved == localStorage["anitowatch-favorites"]
        IN  /\ Serve("favorites", s)
            /\ localStorage' =
                 [localStorage EXCEPT
                    !["anitowatch-favorites"] =
                        JSONstringify(Filter(ParseOrEmpty(saved), characterId))]
            /\ renderer' =
                 [renderer EXCEPT
                    ![TRUE].favorites  =
                        IF s.o.ret = Threw THEN @ ELSE Filter(@, characterId),
                    ![FALSE].favorites = Filter(@, characterId)]
            /\ last' = Requested("removeFavorite", characterId,
                                 Has(renderer[FALSE].favoriteCharacters, characterId))

\* ReadingListManager.loadReadingList
LoadReadingList ==
    LET s == Served("getReadingList", 0, <<>>)
        saved == localStorage["anitowatch-readinglist"]
    IN  /\ Serve("readinglist", s)
        /\ renderer' =
             [renderer EXCEPT
                ![TRUE].readingList  = IF s.o.ret.t = "list" THEN s.o.ret.items ELSE <<>>,
                ![FALSE].readingList = ParseOrEmpty(saved)]
        /\ last' = Requested("loadReadingList", 0, FALSE)
        /\ UNCHANGED localStorage

\* SearchManager.addToReadingList: without the bridge only a notification.
SearchAddToReadingList ==
    \E manga \in {MinimalManga(m) : m \in MalIds} :
        LET s == Served("addToReadingList", manga.mal_id, manga) IN
        /\ TotalLen < MaxLen \/ Hit(files["readinglist"], manga.mal_id)
        /\ Serve("readinglist", s)
        /\ last' = Requested("addToReadingList", manga.mal_id,
                             Hit(files["readinglist"], manga.mal_id))
        /\ UNCHANGED pages

\* The fields the edit form of the reading list page gives.
MangaEditFields ==
    [status |-> "reading", chapters_read |-> 1, rating |-> 7, notes |-> "n"]

\* ReadingListManager.saveEdit: the entry found in this.readingList takes the
\* four fields, then saveReadingList; no bridge call is made.
ReadingSaveEdit ==
    \E malId \in MalIds :
        LET edited == [api \in BOOLEAN |->
                         Edited(renderer[api].readingList, malId, MangaEditFields)]
        IN  /\ renderer' =
                 [renderer EXCEPT
                    ![TRUE].readingList  = edited[TRUE],
                    ![FALSE].readingList = edited[FALSE]]
            /\ localStorage' =
                 IF Find(renderer[FALSE].readingList, malId)
                 THEN [localStorage EXCEPT
                         !["anitowatch-readinglist"] = JSONstringify(edited[FALSE])]
                 ELSE localStorage
            /\ last' = Requested("saveEdit", malId, Find(renderer[TRUE].readingList, malId))
            /\ UNCHANGED <<type, files, now, env, async>>

\* ReadingListManager.removeManga, confirmed by the user, then saveReadingList.
RemoveManga ==
    \E malId \in MalIds :
        LET s == Served("removeFromReadingList", malId, <<>>)
            kept == [api \in BOOLEAN |-> Filter(renderer[api].readingList, malId)]
        IN  /\ Serve("readinglist", s)
            /\ renderer' =
                 [renderer EXCEPT
                    ![TRUE].readingList  = IF s.o.ret = Threw THEN @ ELSE kept[TRUE],
                    ![FALSE].readingList = kept[FALSE]]
            /\ localStorage' =
                 [localStorage EXCEPT !["anitowatch-readinglist"] = JSONstringify(kept[FALSE])]
            /\ last' = Requested("removeManga", malId, Find(renderer[TRUE].readingList, malId))

InitPages ==
    /\ type \in Kinds
    /\ files = [k \in Kinds |-> Missing]
    /\ now = 0
    /\ last = NoCall
    /\ dir = FALSE
    /\ disk = TRUE
    /\ Closed
    /\ Idle

NextPages ==
    \/ type = "watchlist" /\ LoadWatchlist
    \/ type = "watchlist" /\ SearchAddToWatchlist
    \/ type = "watchlist" /\ RemoveAnime
    \/ type = "watchlist" /\ SaveEdit
    \/ type = "readinglist" /\ LoadReadingList
    \/ type = "readinglist" /\ SearchAddToReadingList
    \/ type = "readinglist" /\ ReadingSaveEdit
    \/ type = "readinglist" /\ RemoveManga
    \/ type = "favorites" /\ ToggleFavorite
    \/ type = "favorites" /\ LoadFavoriteCharacters
    \/ type = "favorites" /\ LoadFavorites
    \/ type = "favorites" /\ RemoveFavorite

\* The requests on one list kind, each made on a page with the bridge and on
\* a page without.
SpecPages == InitPages /\ [][NextPages]_vars

\* The disk stops taking writes.
DiskFails == disk /\ DiskFlips

\* The watchlist page's requests on a disk that, at some point, stops taking
\* writes.
InitWatchlistFaults == InitPages /\ type = "watchlist"

NextWatchlistFaults ==
    \/ LoadWatchlist
    \/ SearchAddToWatchlist
    \/ RemoveAnime
    \/ SaveEdit
    \/ DiskFails

SpecWatchlistFaults == InitWatchlistFaults /\ [][NextWatchlistFaults]_vars

\* The character and favorites pages' requests on such a disk.
InitFavoritesFaults == InitPages /\ type = "favorites"

NextFavoritesFaults ==
    \/ ToggleFavorite
    \/ LoadFavoriteCharacters
    \/ LoadFavorites
    \/ RemoveFavorite
    \/ DiskFails

SpecFavoritesFaults == InitFavoritesFaults /\ [][NextFavoritesFaults]_vars

-----------------------------------------------------------------------------
(* The asynchronous steps of a mutating method *)

\* An async method of DataManager runs in two steps.  The first, synchronous,
\* runs to `await this.getWatchlist()': the file has been read with
\* fs.readFileSync and the rest of the method is queued as a microtask.  The
\* second changes the array that was read and writes it with
\* fs.writeFileSync.  Microtasks run in the order they were queued.
Mutators == Methods \ Getters

MutatorsOf(k) == {method \in Mutators : ManagerOf(ChannelOf(method)) = k}

\* The calls made so far.
Made == Len(inbox) + Len(pending) + Len(returned)

\* A call waiting at its first await: its arguments, the array it read and
\* how many calls had returned when it was made.
Awaiting(method, a, read, issued) ==
    [method |-> method, id |-> a.id, data |-> a.data, read |-> read, issued |-> issued]

\* A call that returned: whether it wrote the file and whether it threw.
Returned(c, o) ==
    [op |-> c.method, id |-> c.id, issued |-> c.issued,
     wrote |-> o.writes > 0, threw |-> o.ret = Threw]

\* Mutant of Resumed: the continuation reads the file again before it
\* changes the array.
ResumedOnFreshRead(c, file, t) ==
    Handle(ChannelOf(c.method), file, c.id, c.data, t)

\* The rest of a method after its first await, on the array it read then:
\* the file content found now plays no part.
Resumed(c, file, t) ==
    Handle(ChannelOf(c.method), saveData(c.read), c.id, c.data, t)

\* The synchronous part of a call of a mutating method on the DataManager of
\* the kind.
BeginCall(method) ==
    \E a \in Arguments(method) :
        LET read == Stored(files[type]) IN
        /\ Made < MaxCalls
        /\ method \in Adders => (Len(read) < MaxLen \/ Find(read, a.id))
        /\ pending' = Append(pending, Awaiting(method, a, read, Len(returned)))
        /\ UNCHANGED <<type, files, now, last, env, pages, inbox, returned, search>>

\* The first queued continuation runs: it changes its array, writes it and
\* the call returns.
ResumeCall ==
    /\ pending # <<>>
    /\ LET c == Head(pending)
           o == Resumed(c, files[type], now)
       IN  /\ files' = [files EXCEPT ![type] = IF o.writes > 0 THEN o.file ELSE @]
           /\ returned' = Append(returned, Returned(c, o))
    /\ pending' = Tail(pending)
    /\ UNCHANGED <<type, now, last, env, pages, inbox, search>>

\* The DataManagers constructed: each file holds an empty array.
InitAsync ==
    /\ type \in Kinds
    /\ files = [k \in Kinds |-> ensureDataDirectory(Missing)]
    /\ now = 0
    /\ last = NoCall
    /\ dir = TRUE
    /\ disk = TRUE
    /\ Closed
    /\ Idle

NextAsync ==
    \/ \E method \in MutatorsOf(type) : BeginCall(method)
    \/ ResumeCall

\* Calls of the mutating methods of one DataManager made by code that does
\* not wait for one call to return before it makes the next.
SpecAsync == InitAsync /\ [][NextAsync]_vars

\* Mutant of Drained: a message is dispatched while continuations wait.
DrainedOrNot(queue) == TRUE

\* The main process takes the next IPC message when the microtask queue is
\* empty: each message is delivered in a task of its own and the queue is
\* drained when the handler's synchronous part returns.  All file access of
\* DataManager is synchronous, so the continuations of a handler wait only
\* for microtasks.
Drained(queue) == queue = <<>>

\* ipcRenderer.invoke(channel, ...): the page posts a message and goes on.
Post(method) ==
    \E a \in Arguments(method) :
        /\ Made < MaxCalls
        /\ method \in Adders =>
              (Len(Stored(files[type])) + Len(inbox) + Len(pending) < MaxLen)
        /\ inbox' = Append(inbox, Awaiting(method, a, <<>>, Len(returned)))
        /\ UNCHANGED <<type, files, now, last, env, pages, pending, returned, search>>

\* The handler of the first message runs: the getter constructs a
\* DataManager and the method called on it runs to its first await.
Dispatch ==
    /\ inbox # <<>>
    /\ Drained(pending)
    /\ LET c == Head(inbox)
           m == NewDataManager(files[type], dir, disk)
       IN  /\ files' = [files EXCEPT ![type] = m.file]
           /\ dir' = m.dir
           /\ pending' = Append(pending, [c EXCEPT !.read = Stored(m.file)])
    /\ inbox' = Tail(inbox)
    /\ UNCHANGED <<type, now, last, disk, pages, returned, search>>

\* The main process started, no data directory yet.
InitLoop ==
    /\ InitBridge
    /\ disk = TRUE

NextLoop ==
    \/ \E method \in MutatorsOf(type) : Post(method)
    \/ Dispatch
    \/ ResumeCall

\* The event loop of the main process serving the messages of a page that
\* does not wait for one call to return before it makes the next.
SpecLoop == InitLoop /\ [][NextLoop]_vars

-----------------------------------------------------------------------------
(* The asynchronous steps of CharacterManager.toggleFavorite *)

\* The toggleFavorite calls made so far.
Toggles == Len(pending) + Len(returned)

\* Whether the character is in the set of the page and whether the store
\* holds an entry of it.
FavoriteStatus(id) ==
    [set   |-> Has(renderer[TRUE].favoriteCharacters, id),
     store |-> Find(Stored(files["favorites"]), id)]

\* A toggleFavorite call waiting at an await: for the fetch or for the
\* bridge.  It keeps its number and the status it started from.
Toggling(id, at, ord, was) == [id |-> id, at |-> at, ord |-> ord, was |-> was]

\* The message of a bridge call of a toggleFavorite call.
Message(method, id, data, ord) == [method |-> method, id |-> id, data |-> data, ord |-> ord]

\* if (this.favoriteCharacters.has(characterId)) ... else ...
Branch(set, id) == IF Has(set, id) THEN "remove" ELSE "add"

\* toggleFavorite(characterId) to its first await: a favorite is deleted
\* from the set and removeFromFavorites invoked, otherwise the character is
\* fetched.
ToggleClick ==
    \E characterId \in MalIds :
        LET set == renderer[TRUE].favoriteCharacters
            ord == Toggles
            was == FavoriteStatus(characterId)
        IN  /\ Toggles < MaxCalls
            /\ IF Branch(set, characterId) = "remove"
               THEN /\ renderer' = [renderer EXCEPT
                            ![TRUE].favoriteCharacters = Delete(set, characterId)]
                    /\ inbox' = Append(inbox,
                                  Message("removeFromFavorites", characterId, <<>>, ord))
                    /\ pending' = Append(pending, Toggling(characterId, "bridge", ord, was))
               ELSE /\ pending' = Append(pending, Toggling(characterId, "fetch", ord, was))
                    /\ UNCHANGED <<renderer, inbox>>
            /\ UNCHANGED <<type, files, now, last, env, localStorage, returned, search>>

\* The fetch of a call returns: the id is added to the set and
\* addToFavorites invoked with the character fetched.
ToggleFetched ==
    \E i \in 1..Len(pending) :
        LET c == pending[i] IN
        /\ c.at = "fetch"
        /\ renderer' = [renderer EXCEPT
                ![TRUE].favoriteCharacters = Add(@, c.id)]
        /\ inbox' = Append(inbox,
                      Message("addToFavorites", c.id, MinimalCharacter(c.id), c.ord))
        /\ pending' = [pending EXCEPT ![i].at = "bridge"]
        /\ UNCHANGED <<type, files, now, last, env, localStorage, returned, search>>

\* The main process serves the first message and the call that sent it
\* completes: notification, saveFavoriteCharacters (nothing to do with the
\* bridge), updateFavoriteButton.
ToggleServed ==
    /\ inbox # <<>>
    /\ LET msg == Head(inbox)
           s == Served(msg.method, msg.id, msg.data)
           i == CHOOSE j \in 1..Len(pending) : pending[j].ord = msg.ord
       IN  /\ files' = [files EXCEPT !["favorites"] = s.o.file]
           /\ dir' = s.dir
           /\ returned' = Append(returned, pending[i])
           /\ pending' = SubSeq(pending, 1, i - 1) \o SubSeq(pending, i + 1, Len(pending))
    /\ inbox' = Tail(inbox)
    /\ UNCHANGED <<type, now, last, disk, pages, search>>

\* The character page loaded its favorites from a store that holds none or
\* one.
InitToggle ==
    /\ type = "favorites"
    /\ \E favorites \in {<<>>} \cup {<<characterItem(MinimalCharacter(m), 0)>> : m \in MalIds} :
          /\ files = [k \in Kinds |-> IF k = "favorites" THEN saveData(favorites)
                                      ELSE saveData(<<>>)]
          /\ renderer = [api \in BOOLEAN |->
                           IF api THEN [FreshManagers EXCEPT
                                          !.favoriteCharacters = SetOf(MalIdsOf(favorites))]
                           ELSE FreshManagers]
    /\ localStorage = [key \in StorageKeys |-> NoItem]
    /\ now = 0
    /\ last = NoCall
    /\ dir = TRUE
    /\ disk = TRUE
    /\ Idle

NextToggle ==
    \/ ToggleClick
    \/ ToggleFetched
    \/ ToggleServed

\* Clicks on the favorite button of the character page, the fetches and the
\* bridge calls they start completing in any order.
SpecToggle == InitToggle /\ [][NextToggle]_vars

-----------------------------------------------------------------------------
(* The asynchronous steps of SearchManager, currentType 'all' *)

\* The categories executeSearch queries in turn: anime, manga, characters.
Categories == 3

\* An executeSearch call waiting for a fetch: the page number in the URL of
\* the request and the page numbers of the responses it has, one per
\* category.
Fetching(asked, fetched) == [asked |-> asked, fetched |-> fetched]

\* page=${this.currentPage} in the URL of the next fetch: the field is read
\* when the request is made.
PageAsked == search.currentPage

\* displayResults: the html of the three categories replaces the content of
\* the container when this.currentPage is 1 and is appended otherwise.
Displayed(container, currentPage, html) ==
    IF currentPage = 1 THEN <<html>> ELSE Append(container, html)

\* performSearch: page 1, the loading spinner in the container, the button
\* hidden, then executeSearch to its first await.
PerformSearch ==
    /\ search.made < MaxCalls
    /\ search' = [search EXCEPT
            !.currentPage = 1,
            !.container = <<>>,
            !.loadMore = FALSE,
            !.calls = Append(@, Fetching(1, <<>>)),
            !.made = @ + 1]
    /\ UNCHANGED <<type, files, now, last, env, pages, inbox, pending, returned>>

\* loadMore, from a click on the button: this.currentPage++, then
\* executeSearch to its first await.  The button stays as it is.
LoadMore ==
    /\ search.loadMore
    /\ search.made < MaxCalls
    /\ search.currentPage < MaxPage
    /\ search' = [search EXCEPT
            !.currentPage = @ + 1,
            !.calls = Append(@, Fetching(search.currentPage + 1, <<>>)),
            !.made = @ + 1]
    /\ UNCHANGED <<type, files, now, last, env, pages, inbox, pending, returned>>

\* The fetch of one executeSearch call returns a full page: the call makes
\* the request of the next category or, after the last, displays.
FetchReturns ==
    \E i \in 1..Len(search.calls) :
        LET c == search.calls[i]
            got == [c EXCEPT !.fetched = Append(@, c.asked)]
        IN  /\ IF Len(got.fetched) < Categories
               THEN search' = [search EXCEPT
                        !.calls[i] = [got EXCEPT !.asked = PageAsked]]
               ELSE search' = [search EXCEPT
                        !.calls = SubSeq(@, 1, i - 1) \o SubSeq(@, i + 1, Len(@)),
                        !.container = Displayed(@, search.currentPage, got.fetched),
                        !.loadMore = TRUE]
            /\ UNCHANGED <<type, files, now, last, env, pages, inbox, pending, returned>>

\* The search page open with a query typed.
InitSearch ==
    /\ InitPages
    /\ type = "watchlist"

NextSearch ==
    \/ PerformSearch
    \/ LoadMore
    \/ FetchReturns

\* Searches and clicks on the load-more button, the fetches they start
\* returning in any order.
SpecSearch == InitSearch /\ [][NextSearch]_vars

-----------------------------------------------------------------------------
(* Properties of the bridge *)

\* The list kind a bridge operation is named after.
KindNamed(method) ==
    CASE method \in {"getWatchlist", "addToWatchlist", "removeFromWatchlist",
                     "updateWatchlist"} -> "watchlist"
      [] method \in {"getReadingList", "addToReadingList",
                     "removeFromReadingList"} -> "readinglist"
      [] method \in {"getFavorites", "addToFavorites",
                     "removeFromFavorites"} -> "favorites"

\* The file of a kind holding the text of the empty array.
EmptyArrayFile == [t |-> "array", items |-> <<>>]

\* C11: when the backing file of a kind is missing, a get through the bridge
\* returns the empty collection and afterwards the file exists and holds the
\* empty array (the disk taking the write).
C11_MissingGetCreatesFile ==
    [][\A method \in Getters :
          (IsCall(method) /\ files[KindNamed(method)].t = "missing" /\ disk) =>
              /\ last'.ret = List(<<>>)
              /\ files'[KindNamed(method)] = EmptyArrayFile]_vars

\* getWatchlist through the bridge found no file, returned [] and left the
\* empty-array file.
C11_Witness ==
    /\ last.op = "getWatchlist" /\ last.before = "missing"
    /\ last.ret = List(<<>>)
    /\ files["watchlist"] = EmptyArrayFile

\* C12: a get through the bridge that finds the file missing, blank,
\* unreadable or unparsable completes with the empty collection, also when the
\* disk refuses the repair write: it never fails to its caller.
C12_GetNeverFails ==
    (last.op \in Getters
        /\ last.before \in {"missing", "blank", "unreadable", "unparsable"})
    => last.ret = List(<<>>)

\* The call reaches its `await this.saveData(...)': add of an absent id, any
\* remove, update of a present id, on a file get reads a list from.
ReachesWrite(method, file, id) ==
    /\ getWatchlist(file).ret.t = "list"
    /\ \/ method \in Adders /\ ~Hit(file, id)
       \/ method \in Removers
       \/ method = "updateWatchlist" /\ Hit(file, id)

\* C13: when the write of an add, remove or update fails, the bridge call
\* fails to its caller, the write is attempted once and not retried, and every
\* file keeps the content it had.
C13_WriteFailurePropagates ==
    [][\A method \in Methods \ Getters :
          (IsCall(method) /\ ~disk
              /\ ReachesWrite(method, files[KindNamed(method)], last'.id)) =>
              /\ last'.ret = Threw
              /\ files' = files
              /\ last'.writes <= getWatchlist(files[KindNamed(method)]).writes + 1]_vars

\* addToWatchlist of an absent id on a disk that refuses the write: the call
\* failed after one write attempt.
C13_Witness ==
    /\ last.op = "addToWatchlist" /\ last.before = "array" /\ ~last.hit
    /\ ~disk
    /\ last.ret = Threw /\ last.writes = 1

\* C14: when the content of the file cannot be read or parsed, an add, remove
\* or update through the bridge fails to its caller and the file keeps the
\* content it had.
C14_CorruptMutationFails ==
    [][\A method \in Methods \ Getters :
          (IsCall(method)
              /\ files[KindNamed(method)].t \in {"unreadable", "unparsable"}) =>
              /\ last'.ret = Threw
              /\ files'[KindNamed(method)] = files[KindNamed(method)]]_vars

\* The operation of the store a bridge operation is named after.
StoreOperation(method, file, id, data, t) ==
    CASE method = "getWatchlist"          -> getWatchlist(file)
      [] method = "addToWatchlist"        -> addToWatchlist(file, data, t)
      [] method = "removeFromWatchlist"   -> removeFromWatchlist(file, id)
      [] method = "updateWatchlist"       -> updateWatchlist(file, id, data)
      [] method = "getReadingList"        -> getReadingList(file)
      [] method = "addToReadingList"      -> addToReadingList(file, data, t)
      [] method = "removeFromReadingList" -> removeFromReadingList(file, id)
      [] method = "getFavorites"          -> getFavorites(file)
      [] method = "addToFavorites"        -> addToFavorites(file, data, t)
      [] method = "removeFromFavorites"   -> removeFromFavorites(file, id)

\* What a DataManager of the kind, constructed for the call, settles the
\* store operation with.
StoreOutcome(method, id, data) ==
    LET file == files[KindNamed(method)]
        m == NewDataManager(file, dir, disk)
    IN  IF m.threw THEN Outcome(Threw, file, 0)
        ELSE Written(disk, m.file, StoreOperation(method, m.file, id, data, now))

\* C15: each of the ten bridge operations passes its arguments to the store
\* operation of the same name on the file of that kind, returns what the store
\* operation returns, fails exactly when it fails, and touches no other file.
C15_BridgeForwards ==
    [][\A method \in Methods :
          IsCall(method) =>
              LET o == StoreOutcome(method, last'.id, last'.data) IN
              /\ last'.ret = o.ret
              /\ files' = [files EXCEPT ![KindNamed(method)] = o.file]]_vars

\* removeFromFavorites through the bridge removed the one favorite and
\* returned the empty list.
C15_Witness ==
    /\ last.op = "removeFromFavorites" /\ last.hit
    /\ last.ret = List(<<>>)
    /\ files["favorites"] = EmptyArrayFile

\* C19: a bridge operation of one list kind leaves the backing content of the
\* other two kinds unchanged, in any interleaving of operations of the three
\* kinds.
C19_KindsIndependent ==
    [][\A method \in Methods :
          IsCall(method) =>
              \A k \in Kinds \ {KindNamed(method)} : files'[k] = files[k]]_vars

\* An entry was added to the reading list while the watchlist held one; the
\* watchlist still holds it.
C19_Witness ==
    /\ last.op = "addToReadingList" /\ ~last.hit /\ last.ret.t = "list"
    /\ Len(Stored(files["readinglist"])) = 1
    /\ Len(Stored(files["watchlist"])) = 1
    /\ Len(Stored(files["favorites"])) = 0

-----------------------------------------------------------------------------
(* Properties of the collection a call returns and of its order *)

\* C18: every add, remove and update returns the full resulting collection,
\* and that collection equals what an immediately following get returns.
C18_ReturnsStoredCollection ==
    (last.op \in {"add", "remove", "update"} /\ last.ret.t = "list")
    => last.ret.items = Current

\* sub is list with some entries left out, the others in the same order.
RECURSIVE IsSubsequence(_, _)
IsSubsequence(sub, list) ==
    IF sub = <<>> THEN TRUE
    ELSE IF list = <<>> THEN FALSE
    ELSE IF Head(sub) = Head(list) THEN IsSubsequence(Tail(sub), Tail(list))
    ELSE IsSubsequence(sub, Tail(list))

\* C20: a list keeps insertion order: add of an absent mal_id puts the new
\* entry after all existing ones, which stay as they are; remove leaves the
\* remaining entries in their relative order; update changes one entry in its
\* place and leaves every other position as it is.
C20_InsertionOrder ==
    [][/\ (IsCall("add") /\ last'.ret.t = "list" /\ ~Find(Current, last'.id)) =>
              /\ Len(Current') = Len(Current) + 1
              /\ SubSeq(Current', 1, Len(Current)) = Current
              /\ Current'[Len(Current')].mal_id = last'.id
       /\ (IsCall("add") /\ last'.ret.t = "list" /\ Find(Current, last'.id)) =>
              Current' = Current
       /\ (IsCall("remove") /\ last'.ret.t = "list") =>
              /\ IsSubsequence(Current', Current)
              /\ Len(Current') =
                    Cardinality({i \in 1..Len(Current) : Current[i].mal_id # last'.id})
       /\ (IsCall("update") /\ last'.ret.t = "list") =>
              /\ Len(Current') = Len(Current)
              /\ \/ Current' = Current
                 \/ \E p \in 1..Len(Current) :
                       \A i \in 1..Len(Current) : i # p => Current'[i] = Current[i]]_vars

\* An absent id was added to a list of one entry and stands second.
C20_Witness ==
    /\ last.op = "add" /\ ~last.hit /\ last.ret.t = "list"
    /\ Len(Current) = 2
    /\ Current[1].mal_id # last.id
    /\ Current[2].mal_id = last.id

-----------------------------------------------------------------------------
(* Properties of the pages *)

\* C16: after any sequence of add, remove, update and load requests on the
\* watchlist, a load gives the page without the bridge (local store) the same
\* collection as the page with the bridge.
C16_FallbackEquivalent ==
    last.op = "loadWatchlist" => renderer[FALSE].watchlist = renderer[TRUE].watchlist

\* C17: without the bridge the favorites are one local store: a character
\* favorited by CharacterManager.toggleFavorite is in the collection the next
\* FavoritesManager.loadFavorites loads, and a character removed by
\* FavoritesManager.removeFavorite is not a favorite in what the next
\* CharacterManager.loadFavoriteCharacters loads.
C17_OneFavoritesStore ==
    [][/\ (last.op = "toggleFavorite" /\ ~last.hit /\ IsCall("loadFavorites")) =>
              Find(renderer'[FALSE].favorites, last.id)
       /\ (last.op = "removeFavorite" /\ IsCall("loadFavoriteCharacters")) =>
              ~Has(renderer'[FALSE].favoriteCharacters, last.id)]_vars

-----------------------------------------------------------------------------
(* Properties of the entries the bridge persists *)

\* C21: favorites entries are created and deleted only: a favorites entry
\* present after a bridge operation either was present before it with exactly
\* the same field values, or has a mal_id no entry had before (it was created
\* by the operation).
C21_FavoritesNeverModified ==
    [][\A method \in Methods :
          IsCall(method) =>
              LET old == Stored(files["favorites"])
                  new == Stored(files'["favorites"])
              IN  \A i \in 1..Len(new) :
                     \/ \E j \in 1..Len(old) : old[j] = new[i]
                     \/ ~Find(old, new[i].mal_id)]_vars

\* updateWatchlist found its id in the watchlist while a favorite of the
\* same id exists.
C21_Witness ==
    /\ last.op = "updateWatchlist" /\ last.hit
    /\ last.data = EditFields
    /\ Find(Stored(files["favorites"]), last.id)
    /\ Stored(files["watchlist"])[1].status = "watching"

\* C22: after any sequence of bridge operations, with any field set passed to
\* update-watchlist, every persisted watchlist entry has a status among
\* planning, watching, completed, dropped and a rating from 0 to 10.
C22_StatusAndRatingInRange ==
    \A i \in 1..Len(Stored(files["watchlist"])) :
        LET e == Stored(files["watchlist"])[i] IN
        /\ e.status \in {"planning", "watching", "completed", "dropped"}
        /\ e.rating \in 0..10

-----------------------------------------------------------------------------
(* Properties of the renderer's copies *)

\* C23: with the bridge available, after ReadingListManager.saveEdit has
\* completed for an entry of the reading list, the next load of the reading
\* list through get-readinglist returns the edited status, chapters read,
\* rating and notes for that entry.
C23_ReadingEditDurable ==
    [][(type = "readinglist" /\ last.op = "saveEdit" /\ last.hit
           /\ IsCall("loadReadingList")) =>
          \E i \in 1..Len(renderer'[TRUE].readingList) :
              LET e == renderer'[TRUE].readingList[i] IN
              /\ e.mal_id = last.id
              /\ \A f \in DOMAIN MangaEditFields : e[f] = MangaEditFields[f]]_vars

\* The watchlist the page with the bridge holds is the one the store holds.
InSync == renderer[TRUE].watchlist = Stored(files["watchlist"])

\* C26: with the bridge available and the in-memory watchlist equal to the
\* stored one, after a completed WatchlistManager.removeAnime or saveEdit the
\* in-memory watchlist again equals the collection the store persists.
C26_MemoryFollowsStore ==
    [][(type = "watchlist" /\ InSync /\ (IsCall("removeAnime") \/ IsCall("saveEdit")))
          => InSync']_vars

\* saveEdit patched the first of two entries, in memory and in the store.
C26_Witness ==
    /\ type = "watchlist" /\ last.op = "saveEdit" /\ last.hit /\ last.ret # Threw
    /\ InSync
    /\ Len(renderer[TRUE].watchlist) = 2
    /\ renderer[TRUE].watchlist[1].notes = "n"
    /\ renderer[TRUE].watchlist[2].notes = ""

\* C27: when the bridge call of WatchlistManager.removeAnime or saveEdit
\* fails, the page shows the failure notification and its in-memory watchlist
\* stays as it was.
C27_FailureLeavesMemory ==
    [][(type = "watchlist" /\ (IsCall("removeAnime") \/ IsCall("saveEdit"))
           /\ last'.ret = Threw) =>
          /\ last'.notification = IF last'.op = "removeAnime"
                                  THEN "Failed to remove anime. Please try again."
                                  ELSE "Failed to update anime. Please try again."
          /\ renderer'[TRUE].watchlist = renderer[TRUE].watchlist]_vars

\* removeAnime of an entry the page holds failed on a disk that refuses the
\* write; the page still holds the entry.
C27_Witness ==
    /\ type = "watchlist" /\ last.op = "removeAnime" /\ last.hit /\ last.ret = Threw
    /\ ~disk
    /\ Find(renderer[TRUE].watchlist, last.id)

\* C28: with the bridge available, after every completed
\* CharacterManager.toggleFavorite(id), failed or not, id is in
\* favoriteCharacters exactly if the favorites store holds an entry of that
\* mal_id (the two having agreed on id before the call).
C28_ToggleKeepsSetAndStore ==
    [][(type = "favorites" /\ IsCall("toggleFavorite")
           /\ (Has(renderer[TRUE].favoriteCharacters, last'.id)
                  <=> Find(Stored(files["favorites"]), last'.id))) =>
          (Has(renderer'[TRUE].favoriteCharacters, last'.id)
              <=> Find(Stored(files'["favorites"]), last'.id))]_vars

-----------------------------------------------------------------------------
(* Properties of interleaved calls *)

\* C24: when mutating calls on one list interleave, the call that persists
\* last wins: the file holds the entries that call had read, changed by its
\* own operation and by nothing else, so an entry an earlier call persisted
\* in between, which the later call had not read and does not add itself,
\* is gone (and one removed in between is back).
C24_LaterWriteWins ==
    [][(returned' # returned /\ returned'[Len(returned')].wrote) =>
          LET c == Head(pending)
              found == Stored(files[type])
              written == Stored(files'[type])
          IN  /\ \A i \in 1..Len(written) :
                    Find(c.read, written[i].mal_id) \/ written[i].mal_id = c.id
              /\ \A i \in 1..Len(c.read) :
                    c.read[i].mal_id # c.id => Find(written, c.read[i].mal_id)
              /\ \A i \in 1..Len(found) :
                    (~Find(c.read, found[i].mal_id) /\ found[i].mal_id # c.id)
                        => ~Find(written, found[i].mal_id)]_vars

\* Two adds of different ids were made before either returned, both wrote,
\* and the file holds the entry of the second only.
C24_Witness ==
    /\ Len(returned) = 2 /\ pending = <<>>
    /\ returned[1].op \in Adders /\ returned[2].op \in Adders
    /\ returned[1].id # returned[2].id
    /\ returned[1].issued = 0 /\ returned[2].issued = 0
    /\ returned[1].wrote /\ returned[2].wrote
    /\ ~Find(Stored(files[type]), returned[1].id)
    /\ Find(Stored(files[type]), returned[2].id)

\* Two adds of different ids, both posted before either returned, have
\* returned without an error.
ConcurrentAddsReturned ==
    /\ Len(returned) = 2 /\ pending = <<>>
    /\ returned[1].op \in Adders /\ returned[2].op \in Adders
    /\ returned[1].id # returned[2].id
    /\ returned[1].issued = 0 /\ returned[2].issued = 0
    /\ ~returned[1].threw /\ ~returned[2].threw

C29_TwoTogglesCancel ==
    (/\ Len(returned) = 2 /\ pending = <<>>
     /\ returned[1].id = returned[2].id) =>
        \A i \in 1..2 :
            returned[i].ord = 0 => FavoriteStatus(returned[i].id) = returned[i].was

\* C30: pagination is consistent under every interleaving of in-flight
\* searches: once the searches made have completed, the container shows
\* pages 1..currentPage, each once and in order, every one of them holding
\* that page of each category.
C30_PaginationConsistent ==
    (search.made > 0 /\ search.calls = <<>>) =>
        search.container = [p \in 1..search.currentPage |-> [k \in 1..Categories |-> p]]

====
